---- MODULE Spec2Model ----
(***************************************************************************)
(* Model of exporter/cassandraexporter/exporter_logs.go: the logsExporter  *)
(* (constructor, Start with initializeLogKernel, Shutdown) and the         *)
(* pushLogsData traversal that issues one insert per log record.           *)
(***************************************************************************)
EXTENDS Integers, Sequences, FiniteSets, TLC

(* ------------------------------ bounds --------------------------------- *)

\* A batch has at most MaxNodes nodes: resources + scopes + log records.
MaxNodes == 5
\* Number of Start calls the harness makes on one exporter.
MaxStarts == 2
\* Number of Shutdown calls the harness makes on one exporter.
MaxShutdowns == 2
\* Trace and span ids have at most MaxIdLen bytes.
MaxIdLen == 2

(* ------------------------------ inputs --------------------------------- *)

\* conventions.AttributeServiceName
AttributeServiceName == "service.name"

AttrKeys == {AttributeServiceName}
AttrValues == {"a", "b"}
\* Marks a key that the attribute map does not hold.
Absent == "<absent>"

\* pcommon.Map restricted to the keys the exporter looks at.
AttrMaps == [AttrKeys -> AttrValues \cup {Absent}]

\* Map.Get(key): <<value, ok>>
MapGet(m, key) == <<m[key], m[key] # Absent>>

\* attributesToMap(m.AsRaw()): the raw mapping is handed to the driver as is;
\* only the keys that are present are part of it.
AttributesToMap(m) == {<<key, m[key]>> : key \in {x \in AttrKeys : m[x] # Absent}}

RECURSIVE SumSeq(_)
SumSeq(s) == IF s = <<>> THEN 0 ELSE Head(s) + SumSeq(Tail(s))

\* plog.ScopeLogsSlice: each scope is the number of its LogRecords.
\* ScopeSlices(n): the slices with at most n nodes (scopes + records).
RECURSIVE ScopeSlices(_)
ScopeSlices(n) ==
    IF n <= 0 THEN {<<>>}
    ELSE {<<>>} \cup
         UNION {{<<c>> \o s : s \in ScopeSlices(n - 1 - c)} : c \in 0..(n - 1)}

ScopeNodes(s) == Len(s) + SumSeq(s)

\* plog.ResourceLogsSlice with at most n nodes.
RECURSIVE ResourceSlices(_)
ResourceSlices(n) ==
    IF n <= 0 THEN {<<>>}
    ELSE {<<>>} \cup
         UNION {UNION {{<<[attrs |-> a, scopes |-> s]>> \o b :
                            b \in ResourceSlices(n - 1 - ScopeNodes(s))} :
                       s \in ScopeSlices(n - 1)} :
                a \in AttrMaps}

\* plog.Logs values the harness may pass to pushLogsData.
Batches == ResourceSlices(MaxNodes)

\* Batches the harness passes while it also drives Start and Shutdown: at most
\* one resource with at most one scope.
LifecycleBatches ==
    {b \in Batches : Len(b) <= 1 /\ \A n \in DOMAIN b : Len(b[n].scopes) <= 1}

RECURSIVE LogRecordCount(_)
\* plog.Logs.LogRecordCount()
LogRecordCount(b) ==
    IF b = <<>> THEN 0 ELSE SumSeq(Head(b).scopes) + LogRecordCount(Tail(b))

\* Byte values ids are made of.
Bytes == {0, 10, 171, 255}

\* pcommon.TraceID / pcommon.SpanID values: byte sequences.
IdBytes == UNION {[1..n -> Bytes] : n \in 0..MaxIdLen}

\* The ids of a log record: r.TraceID() and r.SpanID().
RecordIds == [trace : IdBytes, span : IdBytes]

\* The ids of a record that carries none.
NoIds == [trace |-> <<>>, span |-> <<>>]

\* id.IsEmpty(): no byte is set.
IsEmptyId(id) == \A n \in DOMAIN id : id[n] = 0

\* The lowercase hex digits; a text is the sequence of its characters.
HexDigits == <<"0", "1", "2", "3", "4", "5", "6", "7",
               "8", "9", "a", "b", "c", "d", "e", "f">>

RECURSIVE HexEncodeToString(_)
\* hex.EncodeToString(id[:])
HexEncodeToString(bytes) ==
    IF bytes = <<>> THEN <<>>
    ELSE <<HexDigits[(Head(bytes) \div 16) + 1], HexDigits[(Head(bytes) % 16) + 1]>>
         \o HexEncodeToString(Tail(bytes))

\* traceutil.TraceIDToHexOrEmptyString
TraceIDToHexOrEmptyString(id) ==
    IF IsEmptyId(id) THEN <<>> ELSE HexEncodeToString(id)

\* traceutil.SpanIDToHexOrEmptyString
SpanIDToHexOrEmptyString(id) ==
    IF IsEmptyId(id) THEN <<>> ELSE HexEncodeToString(id)

(* ------------------------------- state --------------------------------- *)

\* Goroutines that may run pushLogsData.
Procs == {"p1", "p2"}
MainProc == "p1"

NilSession == "nil"
Session == "session"

VARIABLES
    client,         \* logsExporter.client: NilSession or Session
    clientConfig,   \* the cluster settings the persistent session was created with
    sessionOpen,    \* the persistent session has not been closed
    closeCalls,     \* calls of e.client.Close()
    keyspaceExists, \* storage: the keyspace exists
    tableExists,    \* storage: the log table exists
    starts,         \* Start calls that have returned
    startResult,    \* what the last Start returned
    startTrace,     \* steps the last Start executed, each with its error
    adminOpen,      \* administrative sessions opened and not closed
    successfulStarts, \* Start calls that have returned nil
    shutdowns,      \* Shutdown calls that have returned
    shutdownResult, \* what the last Shutdown returned
    pc,             \* per call: position in pushLogsData
    ld,             \* per call: the batch
    idx,            \* per call: loop indices i, j, k
    serviceName,    \* per call: local variable serviceName
    resAttr,        \* per call: local variable resAttr
    ctxDone,        \* per call: the context is cancelled
    rows,           \* per call: inserts issued so far, with outcome
    logs,           \* per call: records written to e.logger
    pushResult      \* per call: what pushLogsData returned

lifecycleVars == <<client, clientConfig, sessionOpen, closeCalls, keyspaceExists, tableExists,
                   starts, startResult, startTrace, adminOpen,
                   successfulStarts,
                   shutdowns, shutdownResult>>
pushVars == <<pc, ld, idx, serviceName, resAttr, ctxDone, rows, logs, pushResult>>
vars == <<lifecycleVars, pushVars>>

\* A nil-pointer dereference ended the process.
Crashed == \E p \in Procs : pc[p] = "panicked"

InitPushVars ==
    /\ pc = [p \in Procs |-> "idle"]
    /\ ld = [p \in Procs |-> <<>>]
    /\ idx = [p \in Procs |-> [i |-> 0, j |-> 0, k |-> 0]]
    /\ serviceName = [p \in Procs |-> ""]
    /\ resAttr = [p \in Procs |-> {}]
    /\ ctxDone = [p \in Procs |-> FALSE]
    /\ rows = [p \in Procs |-> <<>>]
    /\ logs = [p \in Procs |-> <<>>]
    /\ pushResult = [p \in Procs |-> "none"]

\* cfg.Keyspace
CfgKeyspace == "otel"

\* gocql.NewCluster(cfg.DSN): no keyspace, the driver's default consistency.
NewCluster == [Keyspace |-> "", Consistency |-> "Quorum"]

\* The settings of an exporter that holds no session.
NoConfig == [Keyspace |-> "", Consistency |-> "none"]

\* newLogsExporter with a cluster that can be reached: the session is created
\* from the cluster configuration as it is at the call of CreateSession, the
\* keyspace and the consistency are assigned to the configuration afterwards.
\* config: the settings of the session; cluster: the configuration on return.
NewLogsExporter ==
    LET cluster0 == NewCluster
        session == cluster0
        cluster1 == [cluster0 EXCEPT !.Keyspace = CfgKeyspace]
        cluster2 == [cluster1 EXCEPT !.Consistency = "Quorum"]
    IN  [client |-> Session, config |-> session, cluster |-> cluster2]

\* The exporter as newLogsExporter returns it (client is the session just
\* created), or a logsExporter value whose client field is nil.  The storage
\* target may hold the keyspace and table of an earlier process.
Init ==
    /\ client \in {NilSession, NewLogsExporter.client}
    /\ clientConfig = IF client = NilSession THEN NoConfig ELSE NewLogsExporter.config
    /\ sessionOpen = (client = Session)
    /\ closeCalls = 0
    /\ keyspaceExists \in BOOLEAN
    /\ tableExists \in {t \in BOOLEAN : t => keyspaceExists}
    /\ starts = 0
    /\ startResult = "none"
    /\ startTrace = <<>>
    /\ adminOpen = 0
    /\ successfulStarts = 0
    /\ shutdowns = 0
    /\ shutdownResult = "none"
    /\ InitPushVars

(* ---------------------- Start / initializeLogKernel -------------------- *)

\* createDatabaseSQL is CREATE KEYSPACE IF NOT EXISTS.
CreateDatabaseIfNotExists == TRUE
\* createLogTableSQL is CREATE TABLE IF NOT EXISTS.
CreateLogTableIfNotExists == TRUE

\* cluster.CreateSession()
CreateSession(fault) == IF fault THEN "errCreateSession" ELSE "nil"

\* session.Query(parseCreateDatabaseSQL(cfg)).WithContext(ctx).Exec()
ExecCreateDatabase(exists, fault) ==
    IF fault THEN "errCreateDatabase"
    ELSE IF exists /\ ~CreateDatabaseIfNotExists THEN "errAlreadyExists"
    ELSE "nil"

\* ExecCreateLogTable with a statement that lacks IF NOT EXISTS.
ExecCreateLogTablePlain(exists, fault) ==
    IF fault THEN "errCreateLogTable"
    ELSE IF exists THEN "errAlreadyExists"
    ELSE "nil"

\* session.Query(parseCreateLogTableSQL(cfg)).WithContext(ctx).Exec()
ExecCreateLogTable(exists, fault) ==
    IF fault THEN "errCreateLogTable"
    ELSE IF exists /\ ~CreateLogTableIfNotExists THEN "errAlreadyExists"
    ELSE "nil"

Step(name, err) == [step |-> name, err |-> err]

\* InitializeLogKernel that goes on to the table when the keyspace failed.
InitializeLogKernelIgnoresDatabaseError(keyspace, table, sessFault, ksFault, tblFault) ==
    LET sessionErr == CreateSession(sessFault)
        createDatabaseError == ExecCreateDatabase(keyspace, ksFault)
        createLogTableError == ExecCreateLogTable(table, tblFault)
        s1 == Step("CreateSession", sessionErr)
        s2 == Step("CreateDatabase", createDatabaseError)
        s3 == Step("CreateLogTable", createLogTableError)
    IN  IF sessionErr # "nil"
        THEN [err |-> sessionErr, trace |-> <<s1>>,
              keyspace |-> keyspace, table |-> table, open |-> 0]
        ELSE IF createLogTableError # "nil"
        THEN [err |-> createLogTableError, trace |-> <<s1, s2, s3>>,
              keyspace |-> (keyspace \/ createDatabaseError = "nil"),
              table |-> table, open |-> 1]
        ELSE [err |-> "nil", trace |-> <<s1, s2, s3>>,
              keyspace |-> (keyspace \/ createDatabaseError = "nil"),
              table |-> (keyspace \/ createDatabaseError = "nil"), open |-> 0]

\* initializeLogKernel(cfg) against a storage target where the keyspace and
\* table exist or not; the faults are the failures the cluster may produce.
\* err: the returned error; trace: the steps executed; keyspace, table: the
\* storage afterwards; open: administrative sessions left open on return.
InitializeLogKernel(keyspace, table, sessFault, ksFault, tblFault) ==
    LET sessionErr == CreateSession(sessFault)
        createDatabaseError == ExecCreateDatabase(keyspace, ksFault)
        createLogTableError == ExecCreateLogTable(table, tblFault)
        s1 == Step("CreateSession", sessionErr)
        s2 == Step("CreateDatabase", createDatabaseError)
        s3 == Step("CreateLogTable", createLogTableError)
    IN  IF sessionErr # "nil"
        THEN [err |-> sessionErr, trace |-> <<s1>>,
              keyspace |-> keyspace, table |-> table, open |-> 0]
        ELSE IF createDatabaseError # "nil"
        THEN [err |-> createDatabaseError, trace |-> <<s1, s2>>,
              keyspace |-> keyspace, table |-> table, open |-> 1]
        ELSE IF createLogTableError # "nil"
        THEN [err |-> createLogTableError, trace |-> <<s1, s2, s3>>,
              keyspace |-> TRUE, table |-> table, open |-> 1]
        ELSE [err |-> "nil", trace |-> <<s1, s2, s3>>,
              keyspace |-> TRUE, table |-> TRUE, open |-> 0]

\* Start that drops the error of initializeLogKernel.
StartSwallowsError(sessFault, ksFault, tblFault) ==
    /\ ~Crashed
    /\ starts < MaxStarts
    /\ LET r == InitializeLogKernel(keyspaceExists, tableExists,
                                    sessFault, ksFault, tblFault)
       IN  /\ startResult' = "nil"
           /\ startTrace' = r.trace
           /\ keyspaceExists' = r.keyspace
           /\ tableExists' = r.table
           /\ adminOpen' = adminOpen + r.open
           /\ successfulStarts' = successfulStarts + 1
    /\ starts' = starts + 1
    /\ UNCHANGED <<client, clientConfig, sessionOpen, closeCalls, shutdowns, shutdownResult>>
    /\ UNCHANGED pushVars

\* logsExporter.Start
Start(sessFault, ksFault, tblFault) ==
    /\ ~Crashed
    /\ starts < MaxStarts
    /\ LET r == InitializeLogKernel(keyspaceExists, tableExists,
                                    sessFault, ksFault, tblFault)
       IN  /\ startResult' = r.err
           /\ startTrace' = r.trace
           /\ keyspaceExists' = r.keyspace
           /\ tableExists' = r.table
           /\ adminOpen' = adminOpen + r.open
           /\ successfulStarts' = successfulStarts + (IF r.err = "nil" THEN 1 ELSE 0)
    /\ starts' = starts + 1
    /\ UNCHANGED <<client, clientConfig, sessionOpen, closeCalls, shutdowns, shutdownResult>>
    /\ UNCHANGED pushVars

(* ------------------------------ Shutdown ------------------------------- *)

\* Shutdown that reports a session that is already closed as an error.
ShutdownErrorsWhenClosed ==
    /\ ~Crashed
    /\ shutdowns < MaxShutdowns
    /\ IF client # NilSession
       THEN /\ sessionOpen' = FALSE
            /\ closeCalls' = closeCalls + 1
       ELSE UNCHANGED <<sessionOpen, closeCalls>>
    /\ shutdownResult' = IF client # NilSession /\ ~sessionOpen
                         THEN "errSessionClosed" ELSE "nil"
    /\ shutdowns' = shutdowns + 1
    /\ UNCHANGED <<client, clientConfig, keyspaceExists, tableExists, starts, startResult,
                   startTrace, adminOpen, successfulStarts>>
    /\ UNCHANGED pushVars

\* logsExporter.Shutdown
Shutdown ==
    /\ ~Crashed
    /\ shutdowns < MaxShutdowns
    /\ IF client # NilSession
       THEN /\ sessionOpen' = FALSE
            /\ closeCalls' = closeCalls + 1
       ELSE UNCHANGED <<sessionOpen, closeCalls>>
    /\ shutdownResult' = "nil"
    /\ shutdowns' = shutdowns + 1
    /\ UNCHANGED <<client, clientConfig, keyspaceExists, tableExists, starts, startResult,
                   startTrace, adminOpen, successfulStarts>>
    /\ UNCHANGED pushVars

(* ----------------------------- pushLogsData ---------------------------- *)

\* Slice.At(n), n counted from 0
At(s, n) == s[n + 1]

\* e.client.Query(insertLogTableSQL, ...).WithContext(ctx).Exec()
ExecInsert(open, table, done, fault) ==
    IF ~open THEN "errSessionClosed"
    ELSE IF done THEN "errContext"
    ELSE IF ~table THEN "errNoTable"
    ELSE IF fault THEN "errInsert"
    ELSE "nil"

\* Entry of pushLogsData with a batch of the given set and a context that is
\* live (FALSE) or already cancelled (TRUE), as contexts allows:
\* start := time.Now(); var serviceName string
PushBegin(p, batches, contexts) ==
    /\ ~Crashed
    /\ pc[p] = "idle"
    /\ \E b \in batches, done \in contexts :
          /\ ld' = [ld EXCEPT ![p] = b]
          /\ ctxDone' = [ctxDone EXCEPT ![p] = done]
    /\ pc' = [pc EXCEPT ![p] = "res"]
    /\ idx' = [idx EXCEPT ![p] = [i |-> 0, j |-> 0, k |-> 0]]
    /\ serviceName' = [serviceName EXCEPT ![p] = ""]
    /\ resAttr' = [resAttr EXCEPT ![p] = {}]
    /\ rows' = [rows EXCEPT ![p] = <<>>]
    /\ logs' = [logs EXCEPT ![p] = <<>>]
    /\ pushResult' = [pushResult EXCEPT ![p] = "none"]
    /\ UNCHANGED lifecycleVars

\* The service name after the head of the resource loop has run for a
\* resource with attributes attrs.
ResolveServiceName(current, attrs) ==
    LET got == MapGet(attrs, AttributeServiceName)
    IN  IF got[2] THEN got[1] ELSE current

\* PushResource with the service name kept in a variable that all calls share.
PushResourceSharedServiceName(p) ==
    /\ ~Crashed
    /\ pc[p] = "res"
    /\ IF idx[p].i < Len(ld[p])
       THEN LET res == At(ld[p], idx[p].i)
            IN  /\ resAttr' = [resAttr EXCEPT ![p] = AttributesToMap(res.attrs)]
                /\ serviceName' = [q \in Procs |->
                                     ResolveServiceName(serviceName[p], res.attrs)]
                /\ idx' = [idx EXCEPT ![p].j = 0]
                /\ pc' = [pc EXCEPT ![p] = "scope"]
       ELSE /\ pc' = [pc EXCEPT ![p] = "summary"]
            /\ UNCHANGED <<resAttr, serviceName, idx>>
    /\ UNCHANGED <<ld, ctxDone, rows, logs, pushResult>>
    /\ UNCHANGED lifecycleVars

\* Head of the loop over ld.ResourceLogs()
PushResource(p) ==
    /\ ~Crashed
    /\ pc[p] = "res"
    /\ IF idx[p].i < Len(ld[p])
       THEN LET res == At(ld[p], idx[p].i)
            IN  /\ resAttr' = [resAttr EXCEPT ![p] = AttributesToMap(res.attrs)]
                /\ serviceName' = [serviceName EXCEPT
                                     ![p] = ResolveServiceName(@, res.attrs)]
                /\ idx' = [idx EXCEPT ![p].j = 0]
                /\ pc' = [pc EXCEPT ![p] = "scope"]
       ELSE /\ pc' = [pc EXCEPT ![p] = "summary"]
            /\ UNCHANGED <<resAttr, serviceName, idx>>
    /\ UNCHANGED <<ld, ctxDone, rows, logs, pushResult>>
    /\ UNCHANGED lifecycleVars

\* PushScope with the service name cleared at the head of every scope.
PushScopeClearsServiceName(p) ==
    /\ ~Crashed
    /\ pc[p] = "scope"
    /\ IF idx[p].j < Len(At(ld[p], idx[p].i).scopes)
       THEN /\ idx' = [idx EXCEPT ![p].k = 0]
            /\ pc' = [pc EXCEPT ![p] = "rec"]
            /\ serviceName' = [serviceName EXCEPT
                                 ![p] = IF idx[p].j > 0 THEN "" ELSE @]
       ELSE /\ idx' = [idx EXCEPT ![p].i = @ + 1]
            /\ pc' = [pc EXCEPT ![p] = "res"]
            /\ UNCHANGED serviceName
    /\ UNCHANGED <<ld, resAttr, ctxDone, rows, logs, pushResult>>
    /\ UNCHANGED lifecycleVars

\* Head of the loop over logs.ScopeLogs()
PushScope(p) ==
    /\ ~Crashed
    /\ pc[p] = "scope"
    /\ IF idx[p].j < Len(At(ld[p], idx[p].i).scopes)
       THEN /\ idx' = [idx EXCEPT ![p].k = 0]
            /\ pc' = [pc EXCEPT ![p] = "rec"]
       ELSE /\ idx' = [idx EXCEPT ![p].i = @ + 1]
            /\ pc' = [pc EXCEPT ![p] = "res"]
    /\ UNCHANGED <<ld, serviceName, resAttr, ctxDone, rows, logs, pushResult>>
    /\ UNCHANGED lifecycleVars

\* r.Body().AsRaw() of the record at position (i, j, k): every record has a
\* body of its own.
BodyAsRaw(i, j, k) == <<i, j, k>>

\* json.Marshal(v): the text of v and a nil error, or no bytes and an error
\* when v holds a value JSON cannot represent.  A text is a sequence, the
\* empty text (and the nil byte slice) is <<>>.
JsonMarshal(v, unsupported) ==
    IF unsupported
    THEN [bytes |-> <<>>, err |-> "errUnsupportedValue"]
    ELSE [bytes |-> <<"json">> \o v, err |-> "nil"]

\* Row for a loop that takes the records of a scope from the last to the first.
RowRecordsBackwards(p, marshal, ids, err) ==
    [i |-> idx[p].i, j |-> idx[p].j,
     k |-> At(At(ld[p], idx[p].i).scopes, idx[p].j) - 1 - idx[p].k,
     serviceName |-> serviceName[p], resAttr |-> resAttr[p],
     rawTraceID |-> ids.trace, rawSpanID |-> ids.span,
     traceID |-> TraceIDToHexOrEmptyString(ids.trace),
     spanID |-> SpanIDToHexOrEmptyString(ids.span),
     body |-> marshal.bytes, bodyErr |-> marshal.err,
     onOpenSession |-> sessionOpen, afterStart |-> successfulStarts > 0,
     afterShutdown |-> shutdowns > 0, err |-> err]

\* Row with the span id handed to the trace id column.
RowSpanIdAsTraceId(p, marshal, ids, err) ==
    [i |-> idx[p].i, j |-> idx[p].j, k |-> idx[p].k,
     serviceName |-> serviceName[p], resAttr |-> resAttr[p],
     rawTraceID |-> ids.trace, rawSpanID |-> ids.span,
     traceID |-> TraceIDToHexOrEmptyString(ids.span),
     spanID |-> SpanIDToHexOrEmptyString(ids.span),
     body |-> marshal.bytes, bodyErr |-> marshal.err,
     onOpenSession |-> sessionOpen, afterStart |-> successfulStarts > 0,
     afterShutdown |-> shutdowns > 0, err |-> err]

\* The row handed to the insert of record (i, j, k) with ids ids, with the
\* error of the body's serialization (discarded by the code) and the
\* insert's error; rawTraceID and rawSpanID keep the record's ids.
Row(p, marshal, ids, err) ==
    [i |-> idx[p].i, j |-> idx[p].j, k |-> idx[p].k,
     serviceName |-> serviceName[p], resAttr |-> resAttr[p],
     rawTraceID |-> ids.trace, rawSpanID |-> ids.span,
     traceID |-> TraceIDToHexOrEmptyString(ids.trace),
     spanID |-> SpanIDToHexOrEmptyString(ids.span),
     body |-> marshal.bytes, bodyErr |-> marshal.err,
     onOpenSession |-> sessionOpen, afterStart |-> successfulStarts > 0,
     afterShutdown |-> shutdowns > 0, err |-> err]

\* PushRecord that leaves the loops at the first failed insert.
PushRecordStopsOnError(p, fault, unsupported, ids) ==
    /\ ~Crashed
    /\ pc[p] = "rec"
    /\ IF idx[p].k < At(At(ld[p], idx[p].i).scopes, idx[p].j)
       THEN IF client = NilSession
            THEN /\ pc' = [pc EXCEPT ![p] = "panicked"]
                 /\ UNCHANGED <<idx, rows, logs>>
            ELSE LET bodyByte ==
                         JsonMarshal(BodyAsRaw(idx[p].i, idx[p].j, idx[p].k),
                                     unsupported)
                     insertLogError ==
                         ExecInsert(sessionOpen, tableExists, ctxDone[p], fault)
                 IN  /\ rows' = [rows EXCEPT
                                   ![p] = Append(@, Row(p, bodyByte, ids, insertLogError))]
                     /\ logs' = [logs EXCEPT ![p] =
                                   IF insertLogError # "nil"
                                   THEN Append(@, [level |-> "error",
                                                   err |-> insertLogError])
                                   ELSE @]
                     /\ idx' = [idx EXCEPT ![p].k = @ + 1]
                     /\ pc' = [pc EXCEPT ![p] =
                                 IF insertLogError # "nil" THEN "summary" ELSE @]
       ELSE /\ idx' = [idx EXCEPT ![p].j = @ + 1]
            /\ pc' = [pc EXCEPT ![p] = "scope"]
            /\ UNCHANGED <<rows, logs>>
    /\ UNCHANGED <<ld, serviceName, resAttr, ctxDone, pushResult>>
    /\ UNCHANGED lifecycleVars

\* PushRecord that does not log an insert that failed by the context.
PushRecordSkipsContextErrors(p, fault, unsupported, ids) ==
    /\ ~Crashed
    /\ pc[p] = "rec"
    /\ IF idx[p].k < At(At(ld[p], idx[p].i).scopes, idx[p].j)
       THEN IF client = NilSession
            THEN /\ pc' = [pc EXCEPT ![p] = "panicked"]
                 /\ UNCHANGED <<idx, rows, logs>>
            ELSE LET bodyByte ==
                         JsonMarshal(BodyAsRaw(idx[p].i, idx[p].j, idx[p].k),
                                     unsupported)
                     insertLogError ==
                         ExecInsert(sessionOpen, tableExists, ctxDone[p], fault)
                 IN  /\ rows' = [rows EXCEPT
                                   ![p] = Append(@, Row(p, bodyByte, ids, insertLogError))]
                     /\ logs' = [logs EXCEPT ![p] =
                                   IF insertLogError \notin {"nil", "errContext"}
                                   THEN Append(@, [level |-> "error",
                                                   err |-> insertLogError])
                                   ELSE @]
                     /\ idx' = [idx EXCEPT ![p].k = @ + 1]
                     /\ UNCHANGED pc
       ELSE /\ idx' = [idx EXCEPT ![p].j = @ + 1]
            /\ pc' = [pc EXCEPT ![p] = "scope"]
            /\ UNCHANGED <<rows, logs>>
    /\ UNCHANGED <<ld, serviceName, resAttr, ctxDone, pushResult>>
    /\ UNCHANGED lifecycleVars

\* PushRecord that skips a record whose body cannot be serialized.
PushRecordSkipsUnsupportedBody(p, fault, unsupported, ids) ==
    /\ ~Crashed
    /\ pc[p] = "rec"
    /\ IF idx[p].k < At(At(ld[p], idx[p].i).scopes, idx[p].j)
       THEN IF client = NilSession
            THEN /\ pc' = [pc EXCEPT ![p] = "panicked"]
                 /\ UNCHANGED <<idx, rows, logs>>
            ELSE LET bodyByte ==
                         JsonMarshal(BodyAsRaw(idx[p].i, idx[p].j, idx[p].k),
                                     unsupported)
                     insertLogError ==
                         ExecInsert(sessionOpen, tableExists, ctxDone[p], fault)
                 IN  /\ rows' = [rows EXCEPT ![p] =
                                   IF bodyByte.err # "nil" THEN @
                                   ELSE Append(@, Row(p, bodyByte, ids, insertLogError))]
                     /\ logs' = [logs EXCEPT ![p] =
                                   IF bodyByte.err = "nil" /\ insertLogError # "nil"
                                   THEN Append(@, [level |-> "error",
                                                   err |-> insertLogError])
                                   ELSE @]
                     /\ idx' = [idx EXCEPT ![p].k = @ + 1]
                     /\ UNCHANGED pc
       ELSE /\ idx' = [idx EXCEPT ![p].j = @ + 1]
            /\ pc' = [pc EXCEPT ![p] = "scope"]
            /\ UNCHANGED <<rows, logs>>
    /\ UNCHANGED <<ld, serviceName, resAttr, ctxDone, pushResult>>
    /\ UNCHANGED lifecycleVars

\* Body of the loop over LogRecords(): one insert, logged when it fails.
PushRecord(p, fault, unsupported, ids) ==
    /\ ~Crashed
    /\ pc[p] = "rec"
    /\ IF idx[p].k < At(At(ld[p], idx[p].i).scopes, idx[p].j)
       THEN IF client = NilSession
            THEN /\ pc' = [pc EXCEPT ![p] = "panicked"]
                 /\ UNCHANGED <<idx, rows, logs>>
            ELSE LET bodyByte ==
                         JsonMarshal(BodyAsRaw(idx[p].i, idx[p].j, idx[p].k),
                                     unsupported)
                     insertLogError ==
                         ExecInsert(sessionOpen, tableExists, ctxDone[p], fault)
                 IN  /\ rows' = [rows EXCEPT
                                   ![p] = Append(@, Row(p, bodyByte, ids, insertLogError))]
                     /\ logs' = [logs EXCEPT ![p] =
                                   IF insertLogError # "nil"
                                   THEN Append(@, [level |-> "error",
                                                   err |-> insertLogError])
                                   ELSE @]
                     /\ idx' = [idx EXCEPT ![p].k = @ + 1]
                     /\ UNCHANGED pc
       ELSE /\ idx' = [idx EXCEPT ![p].j = @ + 1]
            /\ pc' = [pc EXCEPT ![p] = "scope"]
            /\ UNCHANGED <<rows, logs>>
    /\ UNCHANGED <<ld, serviceName, resAttr, ctxDone, pushResult>>
    /\ UNCHANGED lifecycleVars

\* PushSummary that returns an error when an insert of the batch failed.
PushSummaryReturnsError(p) ==
    /\ ~Crashed
    /\ pc[p] = "summary"
    /\ logs' = [logs EXCEPT ![p] =
                  Append(@, [level |-> "debug", records |-> LogRecordCount(ld[p])])]
    /\ pushResult' = [pushResult EXCEPT ![p] =
                        IF \E n \in DOMAIN rows[p] : rows[p][n].err # "nil"
                        THEN "error" ELSE "nil"]
    /\ pc' = [pc EXCEPT ![p] = "done"]
    /\ UNCHANGED <<ld, idx, serviceName, resAttr, ctxDone, rows>>
    /\ UNCHANGED lifecycleVars

\* PushSummary that reports the inserts that succeeded.
PushSummaryCountsSucceeded(p) ==
    /\ ~Crashed
    /\ pc[p] = "summary"
    /\ logs' = [logs EXCEPT ![p] =
                  Append(@, [level |-> "debug",
                             records |-> Cardinality({n \in DOMAIN rows[p] :
                                                        rows[p][n].err = "nil"})])]
    /\ pushResult' = [pushResult EXCEPT ![p] = "nil"]
    /\ pc' = [pc EXCEPT ![p] = "done"]
    /\ UNCHANGED <<ld, idx, serviceName, resAttr, ctxDone, rows>>
    /\ UNCHANGED lifecycleVars

\* After the loops: the debug record, return nil
PushSummary(p) ==
    /\ ~Crashed
    /\ pc[p] = "summary"
    /\ logs' = [logs EXCEPT ![p] =
                  Append(@, [level |-> "debug", records |-> LogRecordCount(ld[p])])]
    /\ pushResult' = [pushResult EXCEPT ![p] = "nil"]
    /\ pc' = [pc EXCEPT ![p] = "done"]
    /\ UNCHANGED <<ld, idx, serviceName, resAttr, ctxDone, rows>>
    /\ UNCHANGED lifecycleVars

\* The call has returned; its locals and the caller's view of it are gone.
PushReturn(p) ==
    /\ ~Crashed
    /\ pc[p] = "done"
    /\ pc' = [pc EXCEPT ![p] = "idle"]
    /\ ld' = [ld EXCEPT ![p] = <<>>]
    /\ idx' = [idx EXCEPT ![p] = [i |-> 0, j |-> 0, k |-> 0]]
    /\ serviceName' = [serviceName EXCEPT ![p] = ""]
    /\ resAttr' = [resAttr EXCEPT ![p] = {}]
    /\ ctxDone' = [ctxDone EXCEPT ![p] = FALSE]
    /\ rows' = [rows EXCEPT ![p] = <<>>]
    /\ logs' = [logs EXCEPT ![p] = <<>>]
    /\ pushResult' = [pushResult EXCEPT ![p] = "none"]
    /\ UNCHANGED lifecycleVars

\* The caller cancels the context of a running call.
Cancel(p) ==
    /\ ~Crashed
    /\ pc[p] \in {"res", "scope", "rec", "summary"}
    /\ ~ctxDone[p]
    /\ ctxDone' = [ctxDone EXCEPT ![p] = TRUE]
    /\ UNCHANGED <<pc, ld, idx, serviceName, resAttr, rows, logs, pushResult>>
    /\ UNCHANGED lifecycleVars

(* --------------------------- specifications ---------------------------- *)

\* The steps of a pushLogsData call of p after its entry; bodies tells
\* whether the records may hold a body that JSON cannot represent; the
\* records carry no trace or span id.
PushStep(p, bodies) ==
    \/ PushResource(p)
    \/ PushScope(p)
    \/ \E fault \in BOOLEAN, unsupported \in bodies :
          PushRecord(p, fault, unsupported, NoIds)
    \/ PushSummary(p)
    \/ PushReturn(p)
    \/ Cancel(p)

\* The harness drives one exporter: Start, Shutdown and pushLogsData calls in
\* any order, with batches whose bodies JSON can represent.
Next ==
    \/ \E sessFault, ksFault, tblFault \in BOOLEAN : Start(sessFault, ksFault, tblFault)
    \/ Shutdown
    \/ PushBegin(MainProc, LifecycleBatches, BOOLEAN)
    \/ PushStep(MainProc, {FALSE})

Spec == Init /\ [][Next]_vars

\* A started exporter (Start has returned nil, no Shutdown yet) that receives
\* pushLogsData calls with every batch.
InitPush ==
    /\ client = NewLogsExporter.client
    /\ clientConfig = NewLogsExporter.config
    /\ sessionOpen = TRUE
    /\ closeCalls = 0
    /\ keyspaceExists = TRUE
    /\ tableExists = TRUE
    /\ starts = 1
    /\ startResult = "nil"
    /\ startTrace = <<Step("CreateSession", "nil"), Step("CreateDatabase", "nil"),
                      Step("CreateLogTable", "nil")>>
    /\ adminOpen = 0
    /\ successfulStarts = 1
    /\ shutdowns = 0
    /\ shutdownResult = "none"
    /\ InitPushVars

NextPush ==
    \/ PushBegin(MainProc, Batches, BOOLEAN)
    \/ PushStep(MainProc, BOOLEAN)

SpecPush == InitPush /\ [][NextPush]_vars

\* Batches of concurrent calls: at most one resource with at most one scope,
\* and one record less than a batch may hold.
ConcurrentBatches == {b \in LifecycleBatches : LogRecordCount(b) < MaxNodes - 2}

\* A started exporter on which the harness runs pushLogsData in two
\* goroutines at once, each with a batch of its own, and calls Start again;
\* the contexts stay live and the bodies are representable.
NextConcurrent ==
    \/ \E sessFault, ksFault, tblFault \in BOOLEAN : Start(sessFault, ksFault, tblFault)
    \/ \E p \in Procs :
          \/ PushBegin(p, ConcurrentBatches, {FALSE})
          \/ PushResource(p)
          \/ PushScope(p)
          \/ \E fault \in BOOLEAN : PushRecord(p, fault, FALSE, NoIds)
          \/ PushSummary(p)
          \/ PushReturn(p)

SpecConcurrent == InitPush /\ [][NextConcurrent]_vars

\* Batches of one resource with one scope and one record.
SingleRecordBatches == {b \in LifecycleBatches : LogRecordCount(b) = 1}

\* The record loop of p stands before a record: k < rs.Len()
AtRecord(p) ==
    /\ pc[p] = "rec"
    /\ idx[p].k < At(At(ld[p], idx[p].i).scopes, idx[p].j)

\* A started exporter that receives single records with every trace and span
\* id; the contexts stay live, the bodies are representable and no insert
\* fails by a fault of the cluster.
NextIds ==
    \/ PushBegin(MainProc, SingleRecordBatches, {FALSE})
    \/ PushResource(MainProc)
    \/ PushScope(MainProc)
    \/ \E ids \in (IF AtRecord(MainProc) THEN RecordIds ELSE {NoIds}) :
          PushRecord(MainProc, FALSE, FALSE, ids)
    \/ PushSummary(MainProc)
    \/ PushReturn(MainProc)

SpecIds == InitPush /\ [][NextIds]_vars

(* -------------------------------- claims ------------------------------- *)

\* The position <<i, j, k>> of the record a row was built from.
RowPos(r) == <<r.i, r.j, r.k>>

\* The positions of the log records of a batch.
Positions(b) ==
    {<<i, j, k>> \in (0..MaxNodes) \X (0..MaxNodes) \X (0..MaxNodes) :
        /\ i < Len(b)
        /\ j < Len(At(b, i).scopes)
        /\ k < At(At(b, i).scopes, j)}

\* The service.name attribute of the resource a row belongs to.
OwnServiceAttr(p, r) == At(ld[p], r.i).attrs[AttributeServiceName]

\* C1: pushLogsData never returns an error: a call that has returned has
\* returned nil, whichever of its inserts failed and for whatever reason.
C1_PushReturnsNil ==
    \A p \in Procs :
        /\ pushResult[p] \in {"none", "nil"}
        /\ pc[p] = "done" => pushResult[p] = "nil"

\* C1 witness: a call has returned nil although every one of its inserts
\* failed, one by a storage failure and a later one by the cancelled context.
C1_Witness ==
    /\ pc[MainProc] = "done"
    /\ pushResult[MainProc] = "nil"
    /\ Len(rows[MainProc]) >= 2
    /\ \A n \in DOMAIN rows[MainProc] : rows[MainProc][n].err # "nil"
    /\ \E n, m \in DOMAIN rows[MainProc] :
          /\ n < m
          /\ rows[MainProc][n].err = "errInsert"
          /\ rows[MainProc][m].err = "errContext"

\* C2: a call that has returned has issued exactly one insert per log record
\* of its batch: as many inserts as records, and every record exactly once,
\* whichever inserts failed; while it runs no record was inserted twice.
C2_OneInsertPerRecord ==
    \A p \in Procs :
        /\ \A n, m \in DOMAIN rows[p] :
              RowPos(rows[p][n]) = RowPos(rows[p][m]) => n = m
        /\ \A n \in DOMAIN rows[p] : RowPos(rows[p][n]) \in Positions(ld[p])
        /\ pc[p] = "done" =>
              /\ Len(rows[p]) = LogRecordCount(ld[p])
              /\ \A pos \in Positions(ld[p]) :
                    \E n \in DOMAIN rows[p] : RowPos(rows[p][n]) = pos

\* C2 witness: a batch of three records whose second insert failed and whose
\* first and third inserts were issued and succeeded.
C2_Witness ==
    /\ pc[MainProc] = "done"
    /\ Len(rows[MainProc]) = 3
    /\ rows[MainProc][1].err = "nil"
    /\ rows[MainProc][2].err # "nil"
    /\ rows[MainProc][3].err = "nil"

\* C3: the service name of every row is the service.name attribute of the
\* row's own resource, and the empty string when the resource has none.
C3_ServiceNameOfOwnResource ==
    \A p \in Procs : \A n \in DOMAIN rows[p] :
        rows[p][n].serviceName =
            IF OwnServiceAttr(p, rows[p][n]) = Absent
            THEN "" ELSE OwnServiceAttr(p, rows[p][n])

\* C4: the rows of one resource within one call carry the same service name
\* and the same resource attribute mapping; the mapping is the one of the
\* row's resource, and the service name is the resource's service.name
\* attribute when it has one.
C4_SameValuesPerResource ==
    \A p \in Procs : \A n \in DOMAIN rows[p] :
        /\ \A m \in DOMAIN rows[p] :
              rows[p][n].i = rows[p][m].i =>
                  /\ rows[p][n].serviceName = rows[p][m].serviceName
                  /\ rows[p][n].resAttr = rows[p][m].resAttr
        /\ rows[p][n].resAttr = AttributesToMap(At(ld[p], rows[p][n].i).attrs)
        /\ OwnServiceAttr(p, rows[p][n]) # Absent =>
              rows[p][n].serviceName = OwnServiceAttr(p, rows[p][n])

\* C4 witness: two rows of one resource, from different scopes, both carrying
\* the resource's service name.
C4_Witness ==
    \E n, m \in DOMAIN rows[MainProc] :
        /\ rows[MainProc][n].i = rows[MainProc][m].i
        /\ rows[MainProc][n].j # rows[MainProc][m].j
        /\ rows[MainProc][n].serviceName = "a"
        /\ rows[MainProc][m].serviceName = "a"

\* The errors a step of the Schema Initializer gets from a failing cluster.
ClusterErrors == {"errCreateSession", "errCreateDatabase", "errCreateLogTable"}

\* C5: the CREATE TABLE statement is executed only after the CREATE KEYSPACE
\* statement has succeeded, and CREATE KEYSPACE only on a session that was
\* opened: a failed session opening is the only step of its Start, a failed
\* keyspace creation is the last step of its Start, and the storage never
\* holds the table without the keyspace.
C5_KeyspaceBeforeTable ==
    /\ \A n \in DOMAIN startTrace :
          /\ startTrace[n].step = "CreateLogTable" =>
                \E m \in 1..(n - 1) : startTrace[m] = Step("CreateDatabase", "nil")
          /\ startTrace[n].step = "CreateDatabase" =>
                \E m \in 1..(n - 1) : startTrace[m] = Step("CreateSession", "nil")
    /\ tableExists => keyspaceExists

\* C5 witness: a Start whose keyspace creation failed and that executed no
\* further statement.
C5_Witness ==
    /\ startResult = "errCreateDatabase"
    /\ Len(startTrace) = 2
    /\ ~tableExists

\* C6: Start returns nil exactly when the session was opened and both
\* statements succeeded; otherwise it returns the error of the failing step,
\* which is the last step it executed, and no step is executed twice.
C6_StartReturnsInitializerError ==
    starts > 0 =>
        /\ startResult = "nil" <=>
              /\ Len(startTrace) = 3
              /\ \A n \in DOMAIN startTrace : startTrace[n].err = "nil"
        /\ startResult # "nil" =>
              /\ startTrace[Len(startTrace)].err = startResult
              /\ \A n \in 1..(Len(startTrace) - 1) : startTrace[n].err = "nil"
        /\ \A n, m \in DOMAIN startTrace :
              startTrace[n].step = startTrace[m].step => n = m
        /\ startTrace # <<>>

\* C6 witness: a Start that returned the error of the table creation after
\* the session and the keyspace succeeded.
C6_Witness ==
    /\ startResult = "errCreateLogTable"
    /\ Len(startTrace) = 3
    /\ keyspaceExists

\* C7: a Start that runs after an earlier Start has succeeded, and so finds
\* the keyspace and the table in place, leaves both in place, gets no error
\* from their existence, and returns nil unless the cluster itself fails
\* (the session cannot be opened or a statement fails to execute).
C7_SecondStartSucceeds ==
    [][(starts' = starts + 1 /\ successfulStarts > 0) =>
          /\ keyspaceExists /\ tableExists
          /\ keyspaceExists' /\ tableExists'
          /\ \A n \in DOMAIN startTrace' : startTrace'[n].err # "errAlreadyExists"
          /\ \/ startResult' = "nil"
             \/ \E n \in DOMAIN startTrace' : startTrace'[n].err \in ClusterErrors]_vars

\* C7 witness: two Start calls have both returned nil.
C7_Witness ==
    /\ starts = 2
    /\ successfulStarts = 2
    /\ startResult = "nil"
    /\ keyspaceExists /\ tableExists

\* C8: every Shutdown returns nil and leaves the handle as it is; it closes
\* the session once when the exporter holds one (the session is closed
\* afterwards) and performs no close when the handle is nil; a Shutdown after
\* an earlier Shutdown leaves the session in the state the first one left.
C8_ShutdownIdempotent ==
    [][shutdowns' = shutdowns + 1 =>
          /\ shutdownResult' = "nil"
          /\ client' = client
          /\ closeCalls' = closeCalls + (IF client = NilSession THEN 0 ELSE 1)
          /\ client # NilSession => ~sessionOpen'
          /\ shutdowns >= 1 => sessionOpen' = sessionOpen
          /\ pc' = pc]_vars

\* C8 witness: two Shutdown calls on an exporter that holds a session.
C8_Witness ==
    /\ shutdowns = 2
    /\ client = Session
    /\ closeCalls = 2
    /\ ~sessionOpen
    /\ shutdownResult = "nil"

\* C9: an insert is executed against an open session only after a Start has
\* returned nil and before any Shutdown.
C9_InsertsOnlyWhileStarted ==
    \A p \in Procs : \A n \in DOMAIN rows[p] :
        rows[p][n].onOpenSession =>
            /\ rows[p][n].afterStart
            /\ ~rows[p][n].afterShutdown

\* C10: once a Start has returned an error, the persistent session of the
\* exporter is closed.
C10_FailedStartClosesSession ==
    (starts > 0 /\ startResult # "nil") => ~sessionOpen

\* C11: no administrative session opened by the Schema Initializer is still
\* open once Start has returned, whichever step failed.
C11_AdminSessionClosed ==
    adminOpen = 0

\* C12: the persistent session the exporter holds was created with the
\* configured keyspace and the Quorum consistency level in effect.
C12_SessionCarriesConfig ==
    client = Session =>
        /\ clientConfig.Keyspace = CfgKeyspace
        /\ clientConfig.Consistency = "Quorum"

IsErrorLog(l) == l.level = "error"
IsDebugLog(l) == l.level = "debug"
IsFailedRow(r) == r.err # "nil"

\* The errors of a sequence of records that have an err field, in order.
ErrsOf(s) == [n \in 1..Len(s) |-> s[n].err]

\* C13: within one call the error-level log records are, in order, the errors
\* of the inserts that failed: one record per failed insert, none for an
\* insert that succeeded, whatever made the insert fail.
C13_OneErrorLogPerFailedInsert ==
    \A p \in Procs :
        ErrsOf(SelectSeq(logs[p], IsErrorLog)) = ErrsOf(SelectSeq(rows[p], IsFailedRow))

\* C13 witness: a call whose first insert succeeded and whose second insert
\* failed because the context was cancelled in between; the only error
\* record of the call is the one of the second insert.
C13_Witness ==
    /\ pc[MainProc] = "done"
    /\ Len(rows[MainProc]) = 2
    /\ rows[MainProc][1].err = "nil"
    /\ rows[MainProc][2].err = "errContext"
    /\ Len(SelectSeq(logs[MainProc], IsErrorLog)) = 1

\* Input order of record positions: resource, then scope, then record.
Before(a, b) ==
    \/ a[1] < b[1]
    \/ a[1] = b[1] /\ a[2] < b[2]
    \/ a[1] = b[1] /\ a[2] = b[2] /\ a[3] < b[3]

C15_UnsupportedBodyIsEmpty ==
    \A p \in Procs :
        /\ \A n \in DOMAIN rows[p] :
              /\ rows[p][n].bodyErr # "nil" => rows[p][n].body = <<>>
              /\ rows[p][n].bodyErr = "nil" =>
                    rows[p][n].body =
                        JsonMarshal(BodyAsRaw(rows[p][n].i, rows[p][n].j,
                                              rows[p][n].k), FALSE).bytes
        /\ pc[p] = "done" =>
              /\ pushResult[p] = "nil"
              /\ Len(rows[p]) = LogRecordCount(ld[p])

\* C15 witness: a call has returned nil after two inserts, the first with an
\* empty body because its serialization failed, the second with its body.
C15_Witness ==
    /\ pc[MainProc] = "done"
    /\ pushResult[MainProc] = "nil"
    /\ Len(rows[MainProc]) = 2
    /\ rows[MainProc][1].bodyErr # "nil"
    /\ rows[MainProc][1].body = <<>>
    /\ rows[MainProc][1].err = "nil"
    /\ rows[MainProc][2].bodyErr = "nil"
    /\ rows[MainProc][2].body # <<>>

\* C16: a call writes no debug record while it runs and exactly one when it
\* has returned; that record is the last record of the call and its count is
\* the number of log records of the batch.
C16_OneSummaryPerCall ==
    \A p \in Procs :
        /\ pc[p] # "done" => SelectSeq(logs[p], IsDebugLog) = <<>>
        /\ pc[p] = "done" =>
              /\ Len(SelectSeq(logs[p], IsDebugLog)) = 1
              /\ IsDebugLog(logs[p][Len(logs[p])])
              /\ logs[p][Len(logs[p])].records = LogRecordCount(ld[p])
              /\ logs[p][Len(logs[p])].records = Len(rows[p])

\* C16 witness: a call with two records, one of whose inserts failed, has
\* written its summary with a count of two.
C16_Witness ==
    /\ pc[MainProc] = "done"
    /\ Len(rows[MainProc]) = 2
    /\ \E n \in DOMAIN rows[MainProc] : rows[MainProc][n].err # "nil"
    /\ logs[MainProc][Len(logs[MainProc])] = [level |-> "debug", records |-> 2]

\* The service name a call derives for resource i of batch b from b alone:
\* the service.name of the last resource up to i that has one, else "".
ServiceNameIn(b, i) ==
    LET present == {n \in 0..i : At(b, n).attrs[AttributeServiceName] # Absent}
        last == CHOOSE n \in present : \A o \in present : o <= n
    IN  IF present = {} THEN "" ELSE At(b, last).attrs[AttributeServiceName]

\* C17: with pushLogsData running in two goroutines at once, every call
\* issues one insert per record of its own batch (each record at most once
\* while it runs, all of them when it has returned), every row carries the
\* service name, resource attributes and body derived from the call's own
\* batch, and the exporter's session handle is the one set at construction.
C17_ConcurrentCallsIndependent ==
    /\ client = NewLogsExporter.client
    /\ clientConfig = NewLogsExporter.config
    /\ \A p \in Procs :
          /\ \A n, o \in DOMAIN rows[p] :
                RowPos(rows[p][n]) = RowPos(rows[p][o]) => n = o
          /\ pc[p] = "done" => Len(rows[p]) = LogRecordCount(ld[p])
          /\ \A n \in DOMAIN rows[p] :
                /\ RowPos(rows[p][n]) \in Positions(ld[p])
                /\ rows[p][n].serviceName = ServiceNameIn(ld[p], rows[p][n].i)
                /\ rows[p][n].resAttr =
                       AttributesToMap(At(ld[p], rows[p][n].i).attrs)
                /\ rows[p][n].body =
                       <<"json", rows[p][n].i, rows[p][n].j, rows[p][n].k>>

\* C17 witness: two calls are in flight at once, each has issued the first of
\* its two inserts, one for service "a" and the other for service "b", and a
\* Start has run meanwhile.
C17_Witness ==
    /\ pc["p1"] = "rec" /\ pc["p2"] = "rec"
    /\ LogRecordCount(ld["p1"]) = 2 /\ LogRecordCount(ld["p2"]) = 2
    /\ Len(rows["p1"]) = 1 /\ Len(rows["p2"]) = 1
    /\ rows["p1"][1].serviceName = "a"
    /\ rows["p2"][1].serviceName = "b"
    /\ starts = 2

\* The value of a lowercase hex digit.
HexValue(c) == (CHOOSE d \in 1..16 : HexDigits[d] = c) - 1

\* The bytes a text of hex digits of even length stands for.
HexDecode(text) ==
    [n \in 1..(Len(text) \div 2) |->
        16 * HexValue(text[2 * n - 1]) + HexValue(text[2 * n])]

\* A text is the complete lowercase hex rendering of id.
IsHexOf(text, id) ==
    /\ Len(text) = 2 * Len(id)
    /\ \A n \in DOMAIN text : \E d \in DOMAIN HexDigits : HexDigits[d] = text[n]
    /\ HexDecode(text) = id

\* C18: the trace id and the span id of every row are the empty text when
\* the record's id is empty, and else the complete lowercase hex rendering of
\* the id: twice as many hex digits as the id has bytes, which decode to the
\* bytes of the id.
C18_IdsHexOrEmpty ==
    \A p \in Procs : \A n \in DOMAIN rows[p] :
        /\ IsEmptyId(rows[p][n].rawTraceID) => rows[p][n].traceID = <<>>
        /\ ~IsEmptyId(rows[p][n].rawTraceID) =>
              IsHexOf(rows[p][n].traceID, rows[p][n].rawTraceID)
        /\ IsEmptyId(rows[p][n].rawSpanID) => rows[p][n].spanID = <<>>
        /\ ~IsEmptyId(rows[p][n].rawSpanID) =>
              IsHexOf(rows[p][n].spanID, rows[p][n].rawSpanID)

\* C18 witness: a row with an empty trace id, written as the empty text, and
\* the span id 0a ff, written as the four digits "0aff".
C18_Witness ==
    \E n \in DOMAIN rows[MainProc] :
        /\ rows[MainProc][n].rawTraceID = <<0, 0>>
        /\ rows[MainProc][n].traceID = <<>>
        /\ rows[MainProc][n].rawSpanID = <<10, 255>>
        /\ rows[MainProc][n].spanID = <<"0", "a", "f", "f">>

====
